---- MODULE Spec2Model ----
(***************************************************************************)
(* Model of the invertible layers of flowgmm (invertible/downsample.py,    *)
(* flow_ssl/invertible/coupling_layers.py) and of the semi-supervised      *)
(* training script (experiments/train_flows/                               *)
(* train_semisup_cons_ssclustering.py).                                    *)
(*                                                                         *)
(* A tensor is a record [shape, data]: shape is the size tuple, data the   *)
(* entries in row-major (contiguous) order.  Indices are 0-based as in     *)
(* the source; sequences are 1-based, hence the +1 where data is read.     *)
(* A call that raises returns the record [error |-> <exception name>]; a   *)
(* Python pair (a, b) is the record [first |-> a, second |-> b].           *)
(***************************************************************************)
EXTENDS Integers, Sequences, FiniteSets, TLC

(***************************************************************************)
(* Bounds of the model.                                                    *)
(***************************************************************************)
MaxBatch == 2
MaxCh == 2
MaxSide == 4
MaxArg == 3
MaxLayerCh == 2
MaxLayerBatch == 2
MaxEpochs == 3
MaxBatches == 1
MaxRuns == 2
MaxRampup == 3

(***************************************************************************)
(* Tensor primitives: size, view, permute, slicing, cat, zero padding.     *)
(***************************************************************************)
RECURSIVE Prod(_)
Prod(s) == IF s = <<>> THEN 1 ELSE Head(s) * Prod(Tail(s))

numel(t) == Prod(t.shape)

\* number of entries spanned by one step along dimension d (1-based d)
Stride(shape, d) == Prod(SubSeq(shape, d + 1, Len(shape)))

\* row-major offset of the index tuple idx in a tensor of this shape
RECURSIVE FlatIndex(_, _)
FlatIndex(idx, shape) ==
    IF idx = <<>> THEN 0
    ELSE Head(idx) * Prod(Tail(shape)) + FlatIndex(Tail(idx), Tail(shape))

\* index tuple of the row-major offset n
Unflat(n, shape) ==
    [d \in 1..Len(shape) |-> (n \div Stride(shape, d)) % shape[d]]

Raise(e) == [error |-> e]

IsError(v) == "error" \in DOMAIN v

IsTensor(t) == ~IsError(t)

Pair(a, b) == [first |-> a, second |-> b]

\* t.contiguous().view(*shape): the same entries under another shape
view(t, shape) ==
    IF \A d \in 1..Len(shape) : shape[d] \in Nat
       THEN IF Prod(shape) = numel(t)
               THEN [shape |-> shape, data |-> t.data]
               ELSE Raise("RuntimeError")
       ELSE Raise("RuntimeError")

\* t.permute(*perm).contiguous(): output dimension k is input dimension perm[k]
permute(t, perm) ==
    LET n == Len(perm)
        newshape == [k \in 1..n |-> t.shape[perm[k] + 1]]
        src(j) == LET jdx == Unflat(j, newshape)
                      idx == [d \in 1..n |->
                                jdx[CHOOSE k \in 1..n : perm[k] = d - 1]]
                  IN  FlatIndex(idx, t.shape)
    IN  [shape |-> newshape,
         data |-> [j \in 1..Prod(newshape) |-> t.data[src(j - 1) + 1]]]

\* a Python slice bound i on a dimension of size n: negative bounds count
\* from the end, and the result is clamped to 0..n
SliceBound(i, n) ==
    LET j == IF i < 0 THEN i + n ELSE i
    IN  IF j < 0 THEN 0 ELSE IF j > n THEN n ELSE j

\* t[:, lo:hi, :, :].contiguous()
SliceCh(t, lo, hi) ==
    LET c == t.shape[2]
        l == SliceBound(lo, c)
        h == IF SliceBound(hi, c) < l THEN l ELSE SliceBound(hi, c)
        newshape == <<t.shape[1], h - l, t.shape[3], t.shape[4]>>
        src(j) == LET jdx == Unflat(j, newshape)
                  IN  FlatIndex(<<jdx[1], jdx[2] + l, jdx[3], jdx[4]>>, t.shape)
    IN  [shape |-> newshape,
         data |-> [j \in 1..Prod(newshape) |-> t.data[src(j - 1) + 1]]]

\* torch.cat((a, b), 1)
cat1(a, b) ==
    IF \E d \in {1, 3, 4} : a.shape[d] # b.shape[d] THEN Raise("RuntimeError")
    ELSE
    LET newshape == <<a.shape[1], a.shape[2] + b.shape[2], a.shape[3], a.shape[4]>>
        val(j) == LET jdx == Unflat(j, newshape)
                  IN  IF jdx[2] < a.shape[2]
                         THEN a.data[FlatIndex(jdx, a.shape) + 1]
                         ELSE b.data[FlatIndex(<<jdx[1], jdx[2] - a.shape[2],
                                                 jdx[3], jdx[4]>>, b.shape) + 1]
    IN  [shape |-> newshape,
         data |-> [j \in 1..Prod(newshape) |-> val(j - 1)]]

\* nn.ZeroPad2d((left, right, top, bottom)): pads the last dimension by
\* (left, right) and the one before it by (top, bottom)
ZeroPad2d(t, left, right, top, bottom) ==
    LET newshape == <<t.shape[1], t.shape[2],
                      t.shape[3] + top + bottom, t.shape[4] + left + right>>
        val(j) == LET jdx == Unflat(j, newshape)
                      r == jdx[3] - top
                      c == jdx[4] - left
                  IN  IF r >= 0 /\ r < t.shape[3] /\ c >= 0 /\ c < t.shape[4]
                         THEN t.data[FlatIndex(<<jdx[1], jdx[2], r, c>>, t.shape) + 1]
                         ELSE 0
    IN  [shape |-> newshape,
         data |-> [j \in 1..Prod(newshape) |-> val(j - 1)]]

(***************************************************************************)
(* invertible/downsample.py                                                *)
(***************************************************************************)
\* unsqueeze with the two factor axes interleaved the wrong way round
unsqueeze_swapped(input, upscale_factor) ==
    LET batch_size == input.shape[1]
        out_channels == input.shape[2] \div (upscale_factor * upscale_factor)
        input_view == view(input, <<batch_size, out_channels, upscale_factor,
                                    upscale_factor, input.shape[3], input.shape[4]>>)
    IN  IF upscale_factor = 0 THEN Raise("ZeroDivisionError")
        ELSE IF ~IsTensor(input_view) THEN input_view
        ELSE view(permute(input_view, <<0, 1, 4, 3, 5, 2>>),
                  <<batch_size, out_channels, input.shape[3] * upscale_factor,
                    input.shape[4] * upscale_factor>>)

unsqueeze(input, upscale_factor) ==
    LET batch_size == input.shape[1]
        in_channels == input.shape[2]
        in_height == input.shape[3]
        in_width == input.shape[4]
        out_channels == in_channels \div (upscale_factor * upscale_factor)
        out_height == in_height * upscale_factor
        out_width == in_width * upscale_factor
        input_view == view(input, <<batch_size, out_channels, upscale_factor,
                                    upscale_factor, in_height, in_width>>)
    IN  IF upscale_factor = 0 THEN Raise("ZeroDivisionError")
        ELSE IF ~IsTensor(input_view) THEN input_view
        ELSE view(permute(input_view, <<0, 1, 4, 2, 5, 3>>),
                  <<batch_size, out_channels, out_height, out_width>>)

squeeze(input, downscale_factor) ==
    LET batch_size == input.shape[1]
        in_channels == input.shape[2]
        in_height == input.shape[3]
        in_width == input.shape[4]
        out_channels == in_channels * (downscale_factor * downscale_factor)
        out_height == in_height \div downscale_factor
        out_width == in_width \div downscale_factor
        input_view == view(input, <<batch_size, in_channels, out_height,
                                    downscale_factor, out_width, downscale_factor>>)
    IN  IF downscale_factor = 0 THEN Raise("ZeroDivisionError")
        ELSE IF ~IsTensor(input_view) THEN input_view
        ELSE view(permute(input_view, <<0, 1, 3, 5, 2, 4>>),
                  <<batch_size, out_channels, out_height, out_width>>)

\* SqueezeLayer.forward / inverse take and return a pair (tensor, z)
SqueezeLayer_forward(downscale_factor, pair) ==
    LET y == squeeze(pair.first, downscale_factor)
    IN  IF IsTensor(y) THEN Pair(y, pair.second) ELSE y

SqueezeLayer_inverse(downscale_factor, pair) ==
    LET x == unsqueeze(pair.first, downscale_factor)
    IN  IF IsTensor(x) THEN Pair(x, pair.second) ELSE x

SqueezeLayer_logdet(downscale_factor, y) == Raise("NotImplementedError")

\* padChannels.forward padding in front of the channels instead of behind
padChannels_forward_front(pad_size, x) ==
    permute(ZeroPad2d(permute(x, <<0, 2, 1, 3>>), 0, 0, pad_size, 0),
            <<0, 2, 1, 3>>)

padChannels_forward(pad_size, x) ==
    permute(ZeroPad2d(permute(x, <<0, 2, 1, 3>>), 0, 0, 0, pad_size),
            <<0, 2, 1, 3>>)

padChannels_inverse(pad_size, x) ==
    SliceCh(x, 0, x.shape[2] - pad_size)

split(x, k) == Pair(SliceCh(x, 0, k), SliceCh(x, k, x.shape[2]))

\* merge concatenating in the wrong order
merge_reversed(x1, x2) == cat1(x2, x1)

merge(x1, x2) == cat1(x1, x2)

(***************************************************************************)
(* Exact arithmetic for flow_ssl/invertible/coupling_layers.py.  The       *)
(* entries of the tensors of the convolution layers are rationals <<n, d>> *)
(* in lowest terms with d > 0; a complex number is a trailing dimension of *)
(* size 2 (real, imaginary), as torch.rfft lays it out.                    *)
(***************************************************************************)
Abs(n) == IF n < 0 THEN -n ELSE n

RECURSIVE GCD(_, _)
GCD(a, b) == IF b = 0 THEN a ELSE GCD(b, a % b)

Rat(n, d) ==
    LET g == GCD(Abs(n), Abs(d))
        sgn == IF d < 0 THEN -1 ELSE 1
    IN  <<sgn * (n \div g), sgn * (d \div g)>>

RInt(n) == <<n, 1>>
RZero == <<0, 1>>
RAdd(p, q) == Rat(p[1] * q[2] + q[1] * p[2], p[2] * q[2])
RNeg(p) == <<-p[1], p[2]>>
RSub(p, q) == RAdd(p, RNeg(q))
RMul(p, q) == Rat(p[1] * q[1], p[2] * q[2])
RDiv(p, q) == Rat(p[1] * q[2], p[2] * q[1])

RECURSIVE RSum(_)
RSum(seq) == IF seq = <<>> THEN RZero ELSE RAdd(Head(seq), RSum(Tail(seq)))

\* the tensor of this shape whose entry at index tuple i is f(i)
Build(shape, f(_)) ==
    [shape |-> shape,
     data |-> [j \in 1..Prod(shape) |-> f(Unflat(j - 1, shape))]]

Get(t, idx) == t.data[FlatIndex(idx, t.shape) + 1]

\* F.pad(t, (left, right, top, bottom)) on the last two dimensions of a 4-d
\* tensor; a negative amount crops
F_pad(t, left, right, top, bottom) ==
    Build(<<t.shape[1], t.shape[2],
            t.shape[3] + top + bottom, t.shape[4] + left + right>>,
          LAMBDA i : IF /\ i[3] - top >= 0 /\ i[3] - top < t.shape[3]
                        /\ i[4] - left >= 0 /\ i[4] - left < t.shape[4]
                        THEN Get(t, <<i[1], i[2], i[3] - top, i[4] - left>>)
                        ELSE RZero)

\* F.conv2d(x, weight, bias): cross-correlation without padding, stride 1
F_conv2d(x, weight, bias) ==
    LET ci == weight.shape[2]
        kh == weight.shape[3]
        kw == weight.shape[4]
        taps == <<ci, kh, kw>>
    IN  IF x.shape[2] # ci \/ x.shape[3] < kh \/ x.shape[4] < kw
           THEN Raise("RuntimeError")
           ELSE Build(<<x.shape[1], weight.shape[1],
                        x.shape[3] - kh + 1, x.shape[4] - kw + 1>>,
                      LAMBDA i :
                        RAdd(bias[i[2] + 1],
                             RSum([k \in 1..Prod(taps) |->
                                LET t == Unflat(k - 1, taps)
                                IN  RMul(Get(weight, <<i[2], t[1], t[2], t[3]>>),
                                         Get(x, <<i[1], t[1], i[3] + t[2],
                                                  i[4] + t[3]>>))])))

\* y - bias[None, :, None, None]
SubBias(y, bias) ==
    IF y.shape[2] # Len(bias) /\ Len(bias) # 1 /\ y.shape[2] # 1
       THEN Raise("RuntimeError")
       ELSE Build(<<y.shape[1],
                    IF y.shape[2] = 1 THEN Len(bias) ELSE y.shape[2],
                    y.shape[3], y.shape[4]>>,
                  LAMBDA i : RSub(Get(y, <<i[1], IF y.shape[2] = 1 THEN 0 ELSE i[2],
                                           i[3], i[4]>>),
                                  bias[(IF Len(bias) = 1 THEN 0 ELSE i[2]) + 1]))

(***************************************************************************)
(* Square matrices are functions [1..n -> [1..n -> rational]].             *)
(***************************************************************************)
Minor(M, r, c) ==
    LET n == Len(M)
        skip(k, i) == IF i < k THEN i ELSE i + 1
    IN  [i \in 1..(n - 1) |-> [j \in 1..(n - 1) |-> M[skip(r, i)][skip(c, j)]]]

RECURSIVE Det(_)
Det(M) ==
    IF Len(M) = 0 THEN RInt(1)
    ELSE IF Len(M) = 1 THEN M[1][1]
    ELSE RSum([j \in 1..Len(M) |->
            IF M[1][j] = RZero THEN RZero
            ELSE RMul(IF j % 2 = 1 THEN M[1][j] ELSE RNeg(M[1][j]),
                      Det(Minor(M, 1, j)))])

\* torch.inverse raises on an exactly singular matrix (LAPACK reports the
\* zero pivot)
IsSingular(M) == Det(M) = RZero

\* torch.inverse of a nonsingular matrix: the adjugate over the determinant
MatInverse(M) ==
    LET d == Det(M)
    IN  [i \in 1..Len(M) |-> [j \in 1..Len(M) |->
            RDiv(IF (i + j) % 2 = 0 THEN Det(Minor(M, j, i))
                                    ELSE RNeg(Det(Minor(M, j, i))), d)]]

\* torch.slogdet(M)[1] * k: log|det M| is kept symbolic; log 0 is -inf
LogAbsDetTimes(M, k) ==
    IF Det(M) = RZero
       THEN IF k = 0 THEN [kind |-> "nan"] ELSE [kind |-> "-inf"]
       ELSE [kind |-> "log", of |-> <<Abs(Det(M)[1]), Det(M)[2]>>, times |-> k]

(***************************************************************************)
(* torch.rfft / torch.irfft over the last two dimensions (signal_ndim 2,   *)
(* onesided=False, normalized=False).  The transform is exact for sides    *)
(* 1, 2 and 4, whose roots of unity are 1, -1, i and -i.                   *)
(***************************************************************************)
ExactSides == {1, 2, 4}

\* (-i)^e as <<real, imaginary>>
CisNeg(e) == CASE e % 4 = 0 -> <<1, 0>>
               [] e % 4 = 1 -> <<0, -1>>
               [] e % 4 = 2 -> <<-1, 0>>
               [] e % 4 = 3 -> <<0, 1>>

\* exponent e with exp(-2 pi i (k1 n1 / h + k2 n2 / w)) = (-i)^e
Angle(h, w, k1, n1, k2, n2) == k1 * n1 * (4 \div h) + k2 * n2 * (4 \div w)

\* a real (d1, d2, h, w) tensor to its (d1, d2, h, w, 2) spectrum
rfft(t) ==
    LET h == t.shape[3]
        w == t.shape[4]
        grid == <<h, w>>
    IN  Build(<<t.shape[1], t.shape[2], h, w, 2>>,
              LAMBDA i :
                RSum([n \in 1..(h * w) |->
                    LET m == Unflat(n - 1, grid)
                    IN  RMul(Get(t, <<i[1], i[2], m[1], m[2]>>),
                             RInt(CisNeg(Angle(h, w, i[3], m[1], i[4], m[2]))[i[5] + 1]))]))

\* a (d1, d2, h, w, 2) spectrum with conjugate symmetry to the real signal:
\* the real part of the inverse transform, scaled by 1 / (h w)
irfft(t) ==
    LET h == t.shape[3]
        w == t.shape[4]
        grid == <<h, w>>
    IN  Build(<<t.shape[1], t.shape[2], h, w>>,
              LAMBDA i :
                RDiv(RSum([n \in 1..(h * w) |->
                        LET k == Unflat(n - 1, grid)
                            c == CisNeg(Angle(h, w, k[1], i[3], k[2], i[4]))
                        IN  \* Re((a + ib) * conj(c)) = a c_re + b c_im
                            RAdd(RMul(Get(t, <<i[1], i[2], k[1], k[2], 0>>), RInt(c[1])),
                                 RMul(Get(t, <<i[1], i[2], k[1], k[2], 1>>), RInt(c[2])))]),
                     RInt(h * w)))

\* torch.roll(t, shift, dim) on a 4-d tensor (dim 0-based)
roll(t, shift, dim) ==
    Build(t.shape,
          LAMBDA i : Get(t, [d \in 1..4 |->
                              IF d = dim + 1 THEN (i[d] - shift) % t.shape[d]
                                             ELSE i[d]]))

phi(C) ==
    LET co == C.shape[1]
        ci == C.shape[2]
    IN  Build(<<2 * co, 2 * ci, C.shape[3], C.shape[4]>>,
              LAMBDA i :
                IF i[1] < co
                   THEN IF i[2] < ci
                           THEN Get(C, <<i[1], i[2], i[3], i[4], 0>>)
                           ELSE Get(C, <<i[1], i[2] - ci, i[3], i[4], 1>>)
                   ELSE IF i[2] < ci
                           THEN RNeg(Get(C, <<i[1] - co, i[2], i[3], i[4], 1>>))
                           ELSE Get(C, <<i[1] - co, i[2] - ci, i[3], i[4], 0>>))

phi_vec(v) ==
    LET c == v.shape[2]
    IN  Build(<<v.shape[1], 2 * c, v.shape[3], v.shape[4]>>,
              LAMBDA i : IF i[2] < c
                            THEN Get(v, <<i[1], i[2], i[3], i[4], 0>>)
                            ELSE Get(v, <<i[1], i[2] - c, i[3], i[4], 1>>))

phi_inv_vec(v) ==
    LET c == v.shape[2] \div 2
    IN  Build(<<v.shape[1], c, v.shape[3], v.shape[4], 2>>,
              LAMBDA i : Get(v, <<i[1], i[2] + c * i[5], i[3], i[4]>>))

\* padded_weight[..., 1] *= -1
NegateLastIndex1(t) ==
    IF t.shape[4] < 2 THEN Raise("IndexError")
    ELSE Build(t.shape, LAMBDA i : IF i[4] = 1 THEN RNeg(Get(t, i)) ELSE Get(t, i))

\* torch.inverse of an (h, w, n, n) batch: [k1][k2] is the inverse of the
\* matrix at (k1, k2); one singular matrix fails the call
BatchInverse(t) ==
    LET n == t.shape[3]
        blk(k1, k2) == [i \in 1..n |-> [j \in 1..n |->
                            Get(t, <<k1, k2, i - 1, j - 1>>)]]
    IN  IF t.shape[3] # t.shape[4] THEN Raise("RuntimeError")
        ELSE IF \E k1 \in 0..(t.shape[1] - 1) : \E k2 \in 0..(t.shape[2] - 1) :
                    IsSingular(blk(k1, k2))
                THEN Raise("RuntimeError")
                ELSE [shape |-> t.shape,
                      blocks |-> [k1 \in 0..(t.shape[1] - 1) |->
                                    [k2 \in 0..(t.shape[2] - 1) |->
                                        MatInverse(blk(k1, k2))]]]

\* a @ b for a an inverted (ha, w, n, n) batch and b an (hb, w, n, m) tensor,
\* the leading dimensions broadcast
BatchMatmul(a, b) ==
    LET ha == a.shape[1]
        hb == b.shape[1]
        wa == a.shape[2]
        wb == b.shape[2]
        n == a.shape[4]
        ok(p, q) == p = q \/ p = 1 \/ q = 1
        big(p, q) == IF p = 1 THEN q ELSE p
        at(k, size) == IF size = 1 THEN 0 ELSE k
    IN  IF ~ok(ha, hb) \/ ~ok(wa, wb) \/ n # b.shape[3] THEN Raise("RuntimeError")
        ELSE Build(<<big(ha, hb), big(wa, wb), a.shape[3], b.shape[4]>>,
                   LAMBDA i :
                     RSum([k \in 1..n |->
                        RMul(a.blocks[at(i[1], ha)][at(i[2], wa)][i[3] + 1][k],
                             Get(b, <<at(i[1], hb), at(i[2], wb), k - 1, i[4]>>))]))

(***************************************************************************)
(* flow_ssl/invertible/coupling_layers.py.  A layer object is a record of  *)
(* its parameters and of the attribute its forward sets (cache: None until *)
(* the first forward, then [val |-> <what forward stored>]).               *)
(***************************************************************************)
None == [none |-> TRUE]

\* a (c, c, kh, kw) weight at kernel position (a, b) as a matrix
WeightMatrix(weight, a, b) ==
    [i \in 1..weight.shape[1] |-> [j \in 1..weight.shape[2] |->
        Get(weight, <<i - 1, j - 1, a, b>>)]]

MatrixWeight(M) ==
    Build(<<Len(M), Len(M), 1, 1>>, LAMBDA i : M[i[1] + 1][i[2] + 1])

\* pad_circular_nd(x, pad, dim=[2, 3]): wrap-around padding of both spatial axes
pad_circular_nd(x, pad) ==
    Build(<<x.shape[1], x.shape[2], x.shape[3] + 2 * pad, x.shape[4] + 2 * pad>>,
          LAMBDA i : Get(x, <<i[1], i[2], (i[3] - pad) % x.shape[3],
                              (i[4] - pad) % x.shape[4]>>))

inverse_fft_conv3x3_pytorch(x, weight) ==
    LET bs == x.shape[1]
        c == x.shape[2]
        h == x.shape[3]
        w == x.shape[4]
        fft_input == rfft(x)
        phi_fft_input == permute(phi_vec(fft_input), <<2, 3, 1, 0>>)
        lo == (w - 3) \div 2
        hi == ((w - 3) \div 2) + ((w - 3) % 2)
        padded_weight == NegateLastIndex1(F_pad(weight, lo, hi, lo, hi))
        fft_weight == rfft(padded_weight)
        phi_fft_weight == phi(fft_weight)
        inverse_phi_fft_weight == BatchInverse(permute(phi_fft_weight, <<2, 3, 0, 1>>))
        matmul == BatchMatmul(inverse_phi_fft_weight, phi_fft_input)
        product == phi_inv_vec(permute(matmul, <<3, 2, 0, 1>>))
        conv_inverse == irfft(product)
        unshifted == roll(roll(conv_inverse, -((h - 1) \div 2), 2),
                          -((w - 1) \div 2), 3)
    IN  IF IsError(padded_weight) THEN padded_weight
        ELSE IF IsError(inverse_phi_fft_weight) THEN inverse_phi_fft_weight
        ELSE IF IsError(matmul) THEN matmul
        ELSE unshifted

\* iConv2d with circ=True
iConv2d_forward(self, x) ==
    F_conv2d(pad_circular_nd(x, 1), self.weight, self.bias)

iConv2d_inverse(self, y) ==
    LET debiased == SubBias(y, self.bias)
    IN  IF IsError(debiased) THEN debiased
        ELSE inverse_fft_conv3x3_pytorch(debiased, self.weight)

\* the value is half the sum of the logs of the Cholesky diagonal of the
\* regularised spectrum of the weight padded to the cached size; it is kept
\* symbolic and expanded to the cached batch size
iConv2d_logdet(self) ==
    IF self.cache = None THEN Raise("AttributeError")
    ELSE LET bs == self.cache.val[1]
             h == self.cache.val[3]
             w == self.cache.val[4]
         IN  [shape |-> <<bs>>,
              data |-> [b \in 1..bs |->
                          [kind |-> "half_log_chol", padded |-> <<3 + w - 3, 3 + h - 3>>]]]

iConv1x1_forward(self, x) == F_conv2d(x, self.weight, self.bias)

iConv1x1_logdet(self) ==
    IF self.cache = None THEN Raise("AttributeError")
    ELSE LET bs == self.cache.val[1]
             h == self.cache.val[3]
             w == self.cache.val[4]
         IN  [shape |-> <<bs>>,
              data |-> [b \in 1..bs |->
                          LogAbsDetTimes(WeightMatrix(self.weight, 0, 0), h * w)]]

iConv1x1_inverse(self, y) ==
    IF self.cache = None THEN Raise("AttributeError")
    ELSE LET c == self.cache.val[2]
             W == WeightMatrix(self.weight, 0, 0)
             inv == MatInverse(W)
             debiased_y == SubBias(y, self.bias)
         IN  IF IsSingular(W) THEN Raise("RuntimeError")
             ELSE IF c * c # Len(inv) * Len(inv) THEN Raise("RuntimeError")
             ELSE IF IsError(debiased_y) THEN debiased_y
             ELSE F_conv2d(debiased_y, MatrixWeight(inv),
                           [o \in 1..Len(inv) |-> RZero])

\* torch.exp on the grid of the model: base 2 stands for base e, so that
\* the scale of an integer log_mul is an exact rational
Exp(k) == IF k >= 0 THEN <<2 ^ k, 1>> ELSE <<1, 2 ^ (-k)>>

\* mul_net / bias_net applied to the empty (bs, 0, h, w) input: the output
\* depends on the channel and the pixel coordinates alone
CoordNet(coef, out_channels, bs, h, w) ==
    Build(<<bs, out_channels, h, w>>,
          LAMBDA i : coef[1] + coef[2] * i[2] + coef[3] * i[3] + coef[4] * i[4])

\* elementwise op(a, b) with broadcasting over 4-d shapes
Elementwise(a, b, op(_, _)) ==
    LET big(d) == IF a.shape[d] = 1 THEN b.shape[d] ELSE a.shape[d]
        pick(t, i) == Get(t, [d \in 1..4 |-> IF t.shape[d] = 1 THEN 0 ELSE i[d]])
    IN  IF \E d \in 1..4 : a.shape[d] # b.shape[d] /\ a.shape[d] # 1 /\ b.shape[d] # 1
           THEN Raise("RuntimeError")
           ELSE Build([d \in 1..4 |-> big(d)], LAMBDA i : op(pick(a, i), pick(b, i)))

iCoordInjection_log_mul(self, x) ==
    CoordNet(self.mul_net, self.out_channels, x.shape[1], x.shape[3], x.shape[4])

iCoordInjection_forward(self, x) ==
    LET log_mul == iCoordInjection_log_mul(self, x)
        bias == CoordNet(self.bias_net, self.out_channels,
                         x.shape[1], x.shape[3], x.shape[4])
    IN  Elementwise(x, Elementwise(log_mul, bias, LAMBDA l, b : <<l, b>>),
                    LAMBDA v, lb : RAdd(RMul(v, Exp(lb[1])), RInt(lb[2])))

iCoordInjection_inverse(self, y) ==
    LET log_mul == iCoordInjection_log_mul(self, y)
        bias == CoordNet(self.bias_net, self.out_channels,
                         y.shape[1], y.shape[3], y.shape[4])
    IN  Elementwise(y, Elementwise(log_mul, bias, LAMBDA l, b : <<l, b>>),
                    LAMBDA v, lb : RDiv(RSub(v, RInt(lb[2])), Exp(lb[1])))

RECURSIVE SumInts(_)
SumInts(seq) == IF seq = <<>> THEN 0 ELSE Head(seq) + SumInts(Tail(seq))

\* self._log_mul.sum(3).sum(2).sum(1)
iCoordInjection_logdet(self) ==
    IF self.cache = None THEN Raise("AttributeError")
    ELSE LET lm == self.cache.val
             per == lm.shape[2] * lm.shape[3] * lm.shape[4]
         IN  [shape |-> <<lm.shape[1]>>,
              data |-> [b \in 1..lm.shape[1] |->
                          SumInts(SubSeq(lm.data, (b - 1) * per + 1, b * per))]]

(***************************************************************************)
(* State.  tin .. tld belong to the calls on the reshaping primitives of   *)
(* downsample.py: the tensor and argument handed in, what the forward-     *)
(* direction call returned (tout), what the inverse-direction call         *)
(* returned (tback), what logdet returned (tld), and the last call made.   *)
(*                                                                         *)
(* layer .. lcall belong to the calls on one layer object of               *)
(* coupling_layers.py: the object, the input and the result of its last    *)
(* forward, and the argument, the result and the name of the last call.    *)
(* overwritten records that some forward replaced a cache holding another  *)
(* value than the one it wrote.                                            *)
(*                                                                         *)
(* The rest is the training script: where it stands (pc), its parsed       *)
(* arguments, the files under ckptdir (fs, kept from one run to the next), *)
(* what the current run has done so far (effects), the error that ended    *)
(* it (err), and its module-level names.  step holds the locals of the     *)
(* last batch of train().                                                  *)
(***************************************************************************)
VARIABLES tin, targ, tout, tback, tld, tcall,
          layer, lastx, lasty, larg, lres, lcall, overwritten,
          pc, args, fs, effects, err, run,
          net, means, checkpoint, start_epoch, epoch, optimizer,
          nbatches, batchno, step

reshapeVars == <<tin, targ, tout, tback, tld, tcall>>

layerVars == <<layer, lastx, lasty, larg, lres, lcall, overwritten>>

scriptVars == <<pc, args, fs, effects, err, run,
                net, means, checkpoint, start_epoch, epoch, optimizer,
                nbatches, batchno, step>>

vars == <<reshapeVars, layerVars, scriptVars>>

ReshapeIdle ==
    /\ tin = None /\ targ = 0 /\ tout = None
    /\ tback = None /\ tld = None /\ tcall = "idle"

LayersIdle ==
    /\ layer = None /\ lastx = None /\ lasty = None
    /\ larg = None /\ lres = None /\ lcall = "idle" /\ overwritten = FALSE

ScriptIdle ==
    /\ pc = "idle" /\ args = None /\ fs = None /\ effects = {} /\ err = None
    /\ run = 0 /\ net = None /\ means = None /\ checkpoint = None
    /\ start_epoch = 0 /\ epoch = 0 /\ optimizer = None
    /\ nbatches = 0 /\ batchno = 0 /\ step = None

ZTOKEN == [shape |-> <<0>>, data |-> <<>>]

\* input tensors: every entry different (iota), or entries repeating (mod 3)
Fill(kind, j) == IF kind = "iota" THEN j ELSE j % 3

MkTensor(shape, kind) ==
    [shape |-> shape, data |-> [j \in 1..Prod(shape) |-> Fill(kind, j)]]

Shapes == { <<b, c, h, w>> : b \in 1..MaxBatch, c \in 1..MaxCh,
                             h \in 1..MaxSide, w \in 1..MaxSide }

InitReshape ==
    /\ tin \in { MkTensor(s, kind) : s \in Shapes, kind \in {"iota", "mod3"} }
    /\ targ \in 0..MaxArg
    /\ tout = None
    /\ tback = None
    /\ tld = None
    /\ tcall = "init"
    /\ LayersIdle
    /\ ScriptIdle

CallSqueezeForward ==
    /\ tcall = "init"
    /\ tout' = SqueezeLayer_forward(targ, Pair(tin, ZTOKEN))
    /\ tcall' = "SqueezeLayer.forward"
    /\ UNCHANGED <<tin, targ, tback, tld, layerVars, scriptVars>>

CallSqueezeInverse ==
    /\ tcall = "SqueezeLayer.forward"
    /\ ~IsError(tout)
    /\ tback' = SqueezeLayer_inverse(targ, tout)
    /\ tcall' = "SqueezeLayer.inverse"
    /\ UNCHANGED <<tin, targ, tout, tld, layerVars, scriptVars>>

CallSqueezeLogdet ==
    /\ tcall \in {"SqueezeLayer.forward", "SqueezeLayer.inverse"}
    /\ ~IsError(tout)
    /\ tld = None
    /\ tld' = SqueezeLayer_logdet(targ, tout.first)
    /\ UNCHANGED <<tin, targ, tout, tback, tcall, layerVars, scriptVars>>

CallSplit ==
    /\ tcall = "init"
    /\ tout' = split(tin, targ)
    /\ tcall' = "split"
    /\ UNCHANGED <<tin, targ, tback, tld, layerVars, scriptVars>>

CallMerge ==
    /\ tcall = "split"
    /\ tback' = merge(tout.first, tout.second)
    /\ tcall' = "merge"
    /\ UNCHANGED <<tin, targ, tout, tld, layerVars, scriptVars>>

CallPadForward ==
    /\ tcall = "init"
    /\ tout' = padChannels_forward(targ, tin)
    /\ tcall' = "padChannels.forward"
    /\ UNCHANGED <<tin, targ, tback, tld, layerVars, scriptVars>>

CallPadInverse ==
    /\ tcall = "padChannels.forward"
    /\ tback' = padChannels_inverse(targ, tout)
    /\ tcall' = "padChannels.inverse"
    /\ UNCHANGED <<tin, targ, tout, tld, layerVars, scriptVars>>

NextReshape ==
    \/ CallSqueezeForward
    \/ CallSqueezeInverse
    \/ CallSqueezeLogdet
    \/ CallSplit
    \/ CallMerge
    \/ CallPadForward
    \/ CallPadInverse

SpecReshape == InitReshape /\ [][NextReshape]_vars

(***************************************************************************)
(* Calls on one layer of coupling_layers.py.                               *)
(***************************************************************************)
\* channel-mixing matrices for c channels: nonsingular ones (with integer and
\* with fractional inverses) and singular ones
ChannelMatrix(kind, c) ==
    [i \in 1..c |-> [j \in 1..c |->
        RInt(CASE kind = "identity" -> IF i = j THEN 1 ELSE 0
               [] kind = "shear" -> IF i = j \/ j = i + 1 THEN 1 ELSE 0
               [] kind = "cycle" -> IF j = (i % c) + 1 THEN 1 ELSE 0
               [] kind = "mixed" -> IF i = j THEN i + 1 ELSE 1
               [] kind = "ones" -> 1
               [] kind = "zero" -> 0)]]

\* spatial 3x3 kernels: one tap, or two taps
SpatialKernel(kind, a, b) ==
    CASE kind = "center" -> IF a = 1 /\ b = 1 THEN 1 ELSE 0
      [] kind = "left" -> IF a = 1 /\ b = 0 THEN 1 ELSE 0
      [] kind = "corner" -> IF a = 0 /\ b = 0 THEN -1 ELSE 0
      [] kind = "two" -> IF a = 1 /\ b = 1 THEN 2 ELSE IF a = 1 /\ b = 2 THEN 1 ELSE 0
      [] kind = "pair" -> IF a = 1 /\ b >= 1 THEN 1 ELSE 0

Conv3x3Weight(mkind, skind, c) ==
    Build(<<c, c, 3, 3>>,
          LAMBDA i : RMul(ChannelMatrix(mkind, c)[i[1] + 1][i[2] + 1],
                          RInt(SpatialKernel(skind, i[3], i[4]))))

Biases(c) == { [o \in 1..c |-> RInt(0)], [o \in 1..c |-> RInt(o)] }

\* the iConv2d layers: one channel with each spatial kernel, and two mixed
\* channels (a 4x4 realification per frequency)
Conv2dLayers ==
    { [kind |-> "iConv2d", out_channels |-> 1,
       weight |-> Conv3x3Weight("identity", k, 1),
       bias |-> [o \in 1..1 |-> RInt(0)], cache |-> None] :
         k \in {"center", "left", "corner", "two", "pair"} }
    \cup
    { [kind |-> "iConv2d", out_channels |-> 1,
       weight |-> Conv3x3Weight("identity", "center", 1),
       bias |-> [o \in 1..1 |-> RInt(1)], cache |-> None] }
    \cup
    { [kind |-> "iConv2d", out_channels |-> 2,
       weight |-> Conv3x3Weight("mixed", "two", 2),
       bias |-> [o \in 1..2 |-> RInt(0)], cache |-> None] }

Layers ==
    Conv2dLayers \cup
    UNION { { [kind |-> "iConv1x1", out_channels |-> c,
               weight |-> MatrixWeight(ChannelMatrix(m, c)), bias |-> b,
               cache |-> None] :
                 m \in {"identity", "shear", "cycle", "mixed", "ones", "zero"},
                 b \in Biases(c) }
            \cup
            { [kind |-> "iCoordInjection", out_channels |-> c,
               mul_net |-> mc, bias_net |-> bc, cache |-> None] :
                 mc \in {<<0, 0, 0, 0>>, <<1, 0, 1, 0>>, <<-1, 1, 0, 1>>},
                 bc \in {<<0, 0, 0, 0>>, <<2, 1, 0, -1>>} }
          : c \in 1..MaxLayerCh }

\* spatial sizes (h, w) of the inputs, sides taken from ExactSides; the 3x3
\* convolution gets the one size that holds its kernel
LayerSpatial(kind) ==
    IF kind = "iConv2d" THEN { <<4, 4>> }
    ELSE { <<1, 2>>, <<2, 1>>, <<2, 2>>, <<2, 4>> }

LayerShapes(self) ==
    { <<b, self.out_channels, hw[1], hw[2]>> :
        b \in 1..MaxLayerBatch, hw \in LayerSpatial(self.kind) }

\* shapes of tensors handed to inverse that no forward produced
OtherShapes(self) ==
    IF self.kind = "iConv2d" THEN { <<1, self.out_channels, 4, 4>> }
    ELSE { <<1, self.out_channels, 2, 2>>, <<2, self.out_channels, 1, 2>> }

\* the inputs of forward: entries all different
LayerInput(shape) == Build(shape, LAMBDA i : RInt(FlatIndex(i, shape) + 1))

\* self._input_shape / self._shape / self._log_mul as forward sets it
ForwardCache(self, x) ==
    [val |-> IF self.kind = "iCoordInjection"
                THEN iCoordInjection_log_mul(self, x)
                ELSE x.shape]

Layer_forward(self, x) ==
    CASE self.kind = "iConv1x1" -> iConv1x1_forward(self, x)
      [] self.kind = "iConv2d" -> iConv2d_forward(self, x)
      [] self.kind = "iCoordInjection" -> iCoordInjection_forward(self, x)

Layer_inverse(self, y) ==
    CASE self.kind = "iConv1x1" -> iConv1x1_inverse(self, y)
      [] self.kind = "iConv2d" -> iConv2d_inverse(self, y)
      [] self.kind = "iCoordInjection" -> iCoordInjection_inverse(self, y)

Layer_logdet(self) ==
    CASE self.kind = "iConv1x1" -> iConv1x1_logdet(self)
      [] self.kind = "iConv2d" -> iConv2d_logdet(self)
      [] self.kind = "iCoordInjection" -> iCoordInjection_logdet(self)

InitLayers ==
    /\ layer \in Layers
    /\ lastx = None /\ lasty = None
    /\ larg = None /\ lres = None /\ lcall = "init" /\ overwritten = FALSE
    /\ ReshapeIdle
    /\ ScriptIdle

\* forward that leaves a cache already written as it is
CallForward_keep_first ==
    /\ lcall \in {"init", "forward"}
    /\ \E s \in LayerShapes(layer) :
          /\ layer' = IF layer.cache = None
                         THEN [layer EXCEPT !.cache = ForwardCache(layer, LayerInput(s))]
                         ELSE layer
          /\ lastx' = LayerInput(s)
          /\ lasty' = Layer_forward(layer, LayerInput(s))
          /\ larg' = None
          /\ lres' = None
          /\ lcall' = "forward"
          /\ overwritten' = (overwritten \/ (layer.cache # None /\
                              layer.cache # ForwardCache(layer, LayerInput(s))))
          /\ UNCHANGED <<reshapeVars, scriptVars>>

CallForward ==
    /\ lcall \in {"init", "forward"}
    /\ \E s \in LayerShapes(layer) :
          /\ layer' = [layer EXCEPT !.cache = ForwardCache(layer, LayerInput(s))]
          /\ lastx' = LayerInput(s)
          /\ lasty' = Layer_forward(layer, LayerInput(s))
          /\ larg' = None
          /\ lres' = None
          /\ lcall' = "forward"
          /\ overwritten' = (overwritten \/ (layer.cache # None /\
                              layer.cache # ForwardCache(layer, LayerInput(s))))
          /\ UNCHANGED <<reshapeVars, scriptVars>>

\* inverse on the result of the last forward
CallInverse ==
    /\ lcall = "forward"
    /\ ~IsError(lasty)
    /\ larg' = lasty
    /\ lres' = Layer_inverse(layer, lasty)
    /\ lcall' = "inverse"
    /\ UNCHANGED <<layer, lastx, lasty, overwritten, reshapeVars, scriptVars>>

\* inverse on a tensor that is not the result of the last forward
CallInverseOther ==
    /\ lcall \in {"init", "forward"}
    /\ \E s \in OtherShapes(layer) :
          /\ larg' = LayerInput(s)
          /\ lres' = Layer_inverse(layer, LayerInput(s))
    /\ lcall' = "inverse"
    /\ UNCHANGED <<layer, lastx, lasty, overwritten, reshapeVars, scriptVars>>

CallLogdet ==
    /\ lcall \in {"init", "forward"}
    /\ larg' = None
    /\ lres' = Layer_logdet(layer)
    /\ lcall' = "logdet"
    /\ UNCHANGED <<layer, lastx, lasty, overwritten, reshapeVars, scriptVars>>

NextLayers ==
    \/ CallForward
    \/ CallInverse
    \/ CallInverseOther
    \/ CallLogdet

SpecLayers == InitLayers /\ [][NextLayers]_vars

(***************************************************************************)
(* experiments/train_flows/train_semisup_cons_ssclustering.py              *)
(***************************************************************************)
NO_LABEL == -1

unlabeled_classes == {1, 3, 5, 7, 9}

\* the flow classes the script names as attributes of flow_ssl
FlowClasses == {"RealNVP", "iCNN3d", "iResnetProper", "SmallResidualFlow",
                "ResidualFlow"}

\* str.lower() on the dataset names of the model
Lower(name) ==
    CASE name = "MNIST" -> "mnist"
      [] name = "CIFAR10" -> "cifar10"
      [] OTHER -> name

\* the ramp without its cap at 1
linear_rampup_uncapped(final_value, ep, num_epochs, start_ep) ==
    RMul(Rat(ep - start_ep + 1, num_epochs), final_value)

\* final_value and the result are rationals
linear_rampup(final_value, ep, num_epochs, start_ep) ==
    LET t == Rat(ep - start_ep + 1, num_epochs)
    IN  IF t[1] > t[2] THEN RMul(RInt(1), final_value)
                       ELSE RMul(t, final_value)

\* train_labels of the data set: four labeled samples of classes 0..3 and
\* two samples that carry NO_LABEL from the start
TrainLabels == <<0, 1, 2, 3, NO_LABEL, NO_LABEL>>

\* lines 227-229: labels[labels == cls] = NO_LABEL for cls in unlabeled_classes
Relabel(labels) ==
    [i \in DOMAIN labels |->
        IF labels[i] \in unlabeled_classes THEN NO_LABEL ELSE labels[i]]

\* the batches of the two-stream sampler with batch_size 4: batch_size // 2
\* samples of the labeled stream, then batch_size // 2 of the unlabeled one
Batches == { <<i, j, 5, 6>> : i \in 1..4, j \in 1..4 } \ { <<i, i, 5, 6>> : i \in 1..4 }

\* indexing that keeps every element, whatever the mask
SelectMask_all(seq, mask) == seq

RECURSIVE SelectMask(_, _)
\* seq[mask]: the elements of seq whose mask entry is TRUE, in order
SelectMask(seq, mask) ==
    IF seq = <<>> THEN <<>>
    ELSE (IF Head(mask) THEN <<Head(seq)>> ELSE <<>>)
            \o SelectMask(Tail(seq), Tail(mask))

\* F.cross_entropy(logits, target) with the default mean reduction: the sum
\* of the per-sample terms over their number, which is 0 / 0 = NaN for none
cross_entropy(samples, targets) ==
    [nan |-> Len(samples) = 0,
     terms |-> [k \in 1..Len(samples) |-> <<samples[k], targets[k]>>]]

\* net.module.logdet() after the forward passes named: the log-determinant
\* the layers of the net cached in the latest of them
net_logdet(passes) == passes[Len(passes)]

\* the locals of one pass of the loop body of train() over a batch
TrainBatchLocals(batch, labels, use_unlab, label_weight, consistency_weight) ==
    LET y == [k \in 1..Len(batch) |-> labels[batch[k]]]
        labeled_mask == [k \in 1..Len(batch) |-> y[k] # NO_LABEL]
        \* z2 = net(x2) under no_grad, then z1 = net(x1), then net.module.logdet()
        passes == <<"x2", "x1">>
        sldj == net_logdet(passes)
        z_labeled == SelectMask(batch, labeled_mask)
        y_labeled == SelectMask(y, labeled_mask)
        loss_nll == cross_entropy(z_labeled, y_labeled)
        loss_unsup == IF use_unlab
                         THEN [nan |-> FALSE, over |-> batch, sldj |-> sldj]
                         ELSE [nan |-> FALSE, over |-> <<>>, sldj |-> "none"]
        loss_consistency == [nan |-> FALSE, over |-> batch, sldj |-> sldj,
                             target |-> "pred2"]
    IN  [batch |-> batch, y |-> y, labeled_mask |-> labeled_mask,
         passes |-> passes, sldj |-> sldj,
         z_labeled |-> z_labeled, y_labeled |-> y_labeled,
         loss_nll |-> loss_nll, loss_unsup |-> loss_unsup,
         loss_consistency |-> loss_consistency,
         consistency_weight |-> consistency_weight,
         loss |-> [nan |-> loss_nll.nan \/ loss_unsup.nan \/ loss_consistency.nan,
                   label_weight |-> IF use_unlab THEN label_weight ELSE RInt(1)],
         acc |-> [nan |-> Len(y_labeled) = 0, over |-> z_labeled,
                  targets |-> y_labeled]]

Error(type, msg) == [type |-> type, msg |-> msg]

\* Tensor.numpy(): refused for a tensor that requires grad
numpy(t) ==
    IF t.requires_grad THEN Raise("RuntimeError")
    ELSE [init_run |-> t.init_run, updates |-> t.updates]

\* the command lines of the model
BaseArgs ==
    [dataset |-> "mnist", flow |-> "RealNVP", resume |-> None,
     means_trainable |-> FALSE, swa |-> FALSE, supervised_only |-> FALSE,
     save_freq |-> 1, eval_freq |-> 1, num_epochs |-> MaxEpochs,
     label_weight |-> RInt(1), consistency_weight |-> RInt(1),
     consistency_rampup |-> 2]

ArgSets ==
    { [BaseArgs EXCEPT !.dataset = d, !.flow = f] :
        d \in {"mnist", "MNIST", "cifar10", "imagenet"},
        f \in {"RealNVP", "iCNN3d", "NoSuchFlow"} }
    \cup
    { [BaseArgs EXCEPT !.means_trainable = mt, !.swa = sw,
                       !.save_freq = sf, !.eval_freq = ef] :
        mt \in BOOLEAN, sw \in BOOLEAN, sf \in 1..2, ef \in 1..2 }
    \cup
    { [BaseArgs EXCEPT !.supervised_only = TRUE] }
    \cup
    { [BaseArgs EXCEPT !.consistency_weight = cw, !.consistency_rampup = cr] :
        cw \in {RInt(0), Rat(1, 2), RInt(3)}, cr \in 1..MaxRampup }

InitScript ==
    /\ pc = "makedirs"
    /\ args \in ArgSets
    /\ fs = [ckptdir |-> FALSE, command_sh |-> FALSE, ckpts |-> <<>>,
             samples |-> {}]
    /\ effects = {}
    /\ err = None
    /\ run = 1
    /\ net = None /\ means = None /\ checkpoint = None
    /\ start_epoch = 0 /\ epoch = 0 /\ optimizer = None
    /\ nbatches = 0 /\ batchno = 0 /\ step = None
    /\ ReshapeIdle
    /\ LayersIdle

\* lines 179-182: the checkpoint directory and command.sh
MakeCkptDir ==
    /\ pc = "makedirs"
    /\ fs' = [fs EXCEPT !.ckptdir = TRUE, !.command_sh = TRUE]
    /\ effects' = effects \cup {"makedirs", "command.sh"}
    /\ pc' = "writer"
    /\ UNCHANGED <<args, err, run, net, means, checkpoint, start_epoch, epoch,
                   optimizer, nbatches, batchno, step, reshapeVars, layerVars>>

\* lines 184-187: the log writer, the device, start_epoch = 0
CreateWriter ==
    /\ pc = "writer"
    /\ effects' = effects \cup {"SummaryWriter"}
    /\ start_epoch' = 0
    /\ pc' = "dataset"
    /\ UNCHANGED <<args, fs, err, run, net, means, checkpoint, epoch,
                   optimizer, nbatches, batchno, step, reshapeVars, layerVars>>

\* lines 191-208
DatasetDispatch ==
    /\ pc = "dataset"
    /\ IF Lower(args.dataset) = "mnist"
          THEN pc' = "loaders" /\ err' = err
          ELSE /\ pc' = "raised"
               /\ err' = IF Lower(args.dataset) \in {"cifar10", "svhn"}
                            THEN Error("ValueError", <<"Only MNIST is implemented">>)
                            ELSE Error("ValueError",
                                       <<"Unsupported dataset ", args.dataset>>)
    /\ UNCHANGED <<args, fs, effects, run, net, means, checkpoint, start_epoch,
                   epoch, optimizer, nbatches, batchno, step,
                   reshapeVars, layerVars>>

\* lines 210-244: the data loaders, the relabeling, the loader for SWA
BuildLoaders ==
    /\ pc = "loaders"
    /\ \E n \in 1..MaxBatches : nbatches' = n
    /\ effects' = effects \cup {"data_loaders"}
    /\ pc' = "model"
    /\ UNCHANGED <<args, fs, err, run, net, means, checkpoint, start_epoch,
                   epoch, optimizer, batchno, step, reshapeVars, layerVars>>

\* lines 248-258: getattr(flow_ssl, args.flow) and the construction of the net
BuildModel ==
    /\ pc = "model"
    /\ IF args.flow \in FlowClasses
          THEN /\ net' = [init_run |-> run, updates |-> 0, weights |-> "sgd"]
               /\ pc' = "resume"
               /\ err' = err
          ELSE /\ net' = net
               /\ pc' = "raised"
               /\ err' = Error("AttributeError",
                               <<"module 'flow_ssl' has no attribute '",
                                 args.flow, "'">>)
    /\ UNCHANGED <<args, fs, effects, run, means, checkpoint, start_epoch,
                   epoch, optimizer, nbatches, batchno, step,
                   reshapeVars, layerVars>>

\* lines 260-264
Resume ==
    /\ pc = "resume"
    /\ IF args.resume = None
          THEN UNCHANGED <<checkpoint, net, start_epoch>>
          ELSE /\ checkpoint' = fs.ckpts[args.resume.path]
               /\ net' = fs.ckpts[args.resume.path].net
               /\ start_epoch' = fs.ckpts[args.resume.path].epoch
    /\ pc' = "means"
    /\ UNCHANGED <<args, fs, effects, err, run, means, epoch, optimizer,
                   nbatches, batchno, step, reshapeVars, layerVars>>

\* lines 267-275: fresh means, replaced by the checkpoint's on a resume
InitMeans ==
    /\ pc = "means"
    /\ means' = IF args.resume = None
                   THEN [init_run |-> run, updates |-> 0, requires_grad |-> FALSE]
                   ELSE checkpoint.means
    /\ pc' = "means_np"
    /\ UNCHANGED <<args, fs, effects, err, run, net, checkpoint, start_epoch,
                   epoch, optimizer, nbatches, batchno, step,
                   reshapeVars, layerVars>>

\* lines 278-285: means_np = means.cpu().numpy(), and the trainable copy
MeansToNumpy ==
    /\ pc = "means_np"
    /\ IF IsError(numpy(means))
          THEN /\ pc' = "raised"
               /\ err' = Error("RuntimeError",
                               <<"Can't call numpy() on Tensor that requires grad">>)
               /\ means' = means
          ELSE /\ pc' = "prior"
               /\ err' = err
               /\ means' = IF args.means_trainable
                              THEN [init_run |-> numpy(means).init_run,
                                    updates |-> numpy(means).updates,
                                    requires_grad |-> TRUE]
                              ELSE means
    /\ UNCHANGED <<args, fs, effects, run, net, checkpoint, start_epoch, epoch,
                   optimizer, nbatches, batchno, step, reshapeVars, layerVars>>

\* lines 287-308: the prior over the means, the loss, the optimizer
BuildPrior ==
    /\ pc = "prior"
    /\ optimizer' = [kind |-> IF args.swa THEN "SWA" ELSE "Adam",
                     means_in_groups |-> args.means_trainable,
                     prior_means |-> means, swaps |-> 0]
    /\ epoch' = start_epoch
    /\ pc' = "epoch"
    /\ UNCHANGED <<args, fs, effects, err, run, net, means, checkpoint,
                   start_epoch, nbatches, batchno, step,
                   reshapeVars, layerVars>>

\* lines 311-322: the head of the epoch loop
EpochBegin ==
    /\ pc = "epoch"
    /\ IF epoch < args.num_epochs
          THEN pc' = "train" /\ batchno' = 0
          ELSE pc' = "done" /\ batchno' = batchno
    /\ UNCHANGED <<args, fs, effects, err, run, net, means, checkpoint,
                   start_epoch, epoch, optimizer, nbatches, step,
                   reshapeVars, layerVars>>

\* lines 53-106: one batch of train()
TrainBatch ==
    /\ pc = "train"
    /\ batchno < nbatches
    /\ \E b \in Batches :
          step' = TrainBatchLocals(b, Relabel(TrainLabels),
                     ~args.supervised_only, args.label_weight,
                     linear_rampup(args.consistency_weight, epoch,
                                   args.consistency_rampup, start_epoch))
    /\ net' = [net EXCEPT !.updates = @ + 1]
    /\ means' = IF optimizer.means_in_groups
                   THEN [means EXCEPT !.updates = @ + 1]
                   ELSE means
    /\ batchno' = batchno + 1
    /\ UNCHANGED <<pc, args, fs, effects, err, run, checkpoint, start_epoch,
                   epoch, optimizer, nbatches, reshapeVars, layerVars>>

\* lines 108-119: the images and scalars of the epoch; train() returns
TrainLog ==
    /\ pc = "train"
    /\ batchno = nbatches
    /\ step' = None
    /\ pc' = "save"
    /\ UNCHANGED <<args, fs, effects, err, run, net, means, checkpoint,
                   start_epoch, epoch, optimizer, nbatches, batchno,
                   reshapeVars, layerVars>>

\* lines 329-338
SaveCheckpoint ==
    /\ pc = "save"
    /\ IF epoch % args.save_freq = 0
          THEN fs' = [fs EXCEPT !.ckpts =
                        [e \in DOMAIN fs.ckpts \cup {epoch} |->
                            IF e = epoch
                               THEN [net |-> net, epoch |-> epoch, means |-> means]
                               ELSE fs.ckpts[e]]]
          ELSE fs' = fs
    /\ pc' = IF epoch % args.eval_freq = 0 THEN "eval" ELSE "next"
    /\ UNCHANGED <<args, effects, err, run, net, means, checkpoint,
                   start_epoch, epoch, optimizer, nbatches, batchno, step,
                   reshapeVars, layerVars>>

\* optimizer.swap_swa_sgd(): the parameters of the net and the averaged ones
\* kept by the SWA optimizer change places
swap_swa_sgd(n) == [n EXCEPT !.weights = IF @ = "sgd" THEN "swa" ELSE "sgd"]

\* lines 342-349: the test pass, then with SWA the swap to the averaged
\* weights, the batch-norm update and the second test pass
Evaluate ==
    /\ pc = "eval"
    /\ net' = IF args.swa THEN swap_swa_sgd(net) ELSE net
    /\ optimizer' = IF args.swa THEN [optimizer EXCEPT !.swaps = @ + 1]
                                ELSE optimizer
    /\ pc' = "sample"
    /\ UNCHANGED <<args, fs, effects, err, run, means, checkpoint,
                   start_epoch, epoch, nbatches, batchno, step,
                   reshapeVars, layerVars>>

\* the samples written, and no swap back
Sample_no_swap_back ==
    /\ pc = "sample"
    /\ fs' = [fs EXCEPT !.samples = @ \cup {epoch}]
    /\ pc' = "next"
    /\ UNCHANGED <<args, effects, err, run, net, optimizer, means, checkpoint,
                   start_epoch, epoch, nbatches, batchno, step,
                   reshapeVars, layerVars>>

\* lines 351-370: the images of the means and of the samples, then with SWA
\* the swap back
Sample ==
    /\ pc = "sample"
    /\ fs' = [fs EXCEPT !.samples = @ \cup {epoch}]
    /\ net' = IF args.swa THEN swap_swa_sgd(net) ELSE net
    /\ optimizer' = IF args.swa THEN [optimizer EXCEPT !.swaps = @ + 1]
                                ELSE optimizer
    /\ pc' = "next"
    /\ UNCHANGED <<args, effects, err, run, means, checkpoint,
                   start_epoch, epoch, nbatches, batchno, step,
                   reshapeVars, layerVars>>

\* line 311: the next value of range(start_epoch, args.num_epochs)
NextEpoch ==
    /\ pc = "next"
    /\ epoch' = epoch + 1
    /\ pc' = "epoch"
    /\ UNCHANGED <<args, fs, effects, err, run, net, means, checkpoint,
                   start_epoch, optimizer, nbatches, batchno, step,
                   reshapeVars, layerVars>>

\* the script is started again with --resume naming a checkpoint on disk;
\* the files stay, the names of the module start afresh
StartResumed ==
    /\ pc \in {"done", "raised"}
    /\ run < MaxRuns
    /\ \E e \in DOMAIN fs.ckpts, mt \in BOOLEAN :
          args' = [args EXCEPT !.resume = [path |-> e], !.means_trainable = mt]
    /\ run' = run + 1
    /\ pc' = "makedirs"
    /\ effects' = {}
    /\ err' = None
    /\ net' = None /\ means' = None /\ checkpoint' = None
    /\ start_epoch' = 0 /\ epoch' = 0 /\ optimizer' = None
    /\ nbatches' = 0 /\ batchno' = 0 /\ step' = None
    /\ UNCHANGED <<fs, reshapeVars, layerVars>>

NextScript ==
    \/ MakeCkptDir
    \/ CreateWriter
    \/ DatasetDispatch
    \/ BuildLoaders
    \/ BuildModel
    \/ Resume
    \/ InitMeans
    \/ MeansToNumpy
    \/ BuildPrior
    \/ EpochBegin
    \/ TrainBatch
    \/ TrainLog
    \/ SaveCheckpoint
    \/ Evaluate
    \/ Sample
    \/ NextEpoch
    \/ StartResumed

SpecScript == InitScript /\ [][NextScript]_vars

(***************************************************************************)
(* The forward cache of a layer and its use by train(): forward and logdet *)
(* calls on one layer object, or a run of the training script.             *)
(***************************************************************************)
\* the runs of the script taken here: the default command line, and the one
\* with --supervised_only
CacheArgSets == { BaseArgs, [BaseArgs EXCEPT !.supervised_only = TRUE] }

InitCache == InitLayers \/ (InitScript /\ args \in CacheArgSets)

NextCache ==
    \/ CallForward
    \/ CallLogdet
    \/ NextScript

SpecCache == InitCache /\ [][NextCache]_vars

(***************************************************************************)
(* Properties of the training script.                                      *)
(***************************************************************************)
\* C6 (as claimed): in a training step whose batch has no labeled sample the
\* cross-entropy term is exactly 0 and the step does not raise.
C6_NoLabeledSampleGivesZero ==
    (step # None /\ \A k \in DOMAIN step.y : step.y[k] = NO_LABEL) =>
        /\ ~step.loss_nll.nan
        /\ step.loss_nll.terms = <<>>
        /\ pc # "raised"

UnsupportedDataset == args.dataset \notin {"mnist", "MNIST"}

UnsupportedFlow == args.flow \notin FlowClasses

Echoes(error, name) == \E k \in DOMAIN error.msg : error.msg[k] = name

\* C9 (as claimed): with an unsupported dataset or flow name the script has
\* no side effect (checkpoint directory, command file, log writer, data
\* loaders), and the error that ends it contains the invalid name.
C9_UnsupportedNameFailsFirst ==
    (UnsupportedDataset \/ UnsupportedFlow) =>
        /\ effects = {}
        /\ pc = "raised" =>
              Echoes(err, IF UnsupportedDataset THEN args.dataset ELSE args.flow)

Values(t) == [init_run |-> t.init_run, updates |-> t.updates]

\* C10 (as claimed): a checkpoint holds the network parameters, the epoch and
\* the means of the moment it is written, and a run resumed from it reaches
\* its epoch loop with that epoch, those means (in the prior too) and those
\* network parameters.
C10_ResumeRestoresCheckpoint ==
    /\ (pc \in {"eval", "next"} /\ epoch % args.save_freq = 0) =>
          /\ epoch \in DOMAIN fs.ckpts
          /\ fs.ckpts[epoch] = [net |-> net, epoch |-> epoch, means |-> means]
    /\ args.resume # None =>
          /\ pc # "raised"
          /\ (pc = "epoch" /\ epoch = start_epoch /\ batchno = 0) =>
                /\ start_epoch = checkpoint.epoch
                /\ net = checkpoint.net
                /\ Values(means) = Values(checkpoint.means)
                /\ Values(optimizer.prior_means) = Values(checkpoint.means)

(***************************************************************************)
(* Properties of the layers of coupling_layers.py.                         *)
(***************************************************************************)
\* the 3x3 kernel as the kernel of the circular correlation on an (h, w)
\* grid: the taps wrapped around the grid
WrappedKernel(weight, h, w) ==
    Build(<<weight.shape[1], weight.shape[2], h, w>>,
          LAMBDA i :
            RSum([k \in 1..9 |->
                LET a == (k - 1) \div 3
                    b == (k - 1) % 3
                IN  IF (a - 1) % h = i[3] /\ (b - 1) % w = i[4]
                       THEN Get(weight, <<i[1], i[2], a, b>>)
                       ELSE RZero]))

\* the linear map of the layer's forward is one-to-one on inputs of this shape
Nonsingular(self, shape) ==
    CASE self.kind = "iConv1x1" -> ~IsSingular(WeightMatrix(self.weight, 0, 0))
      [] self.kind = "iConv2d" ->
            ~IsError(BatchInverse(permute(
                phi(rfft(WrappedKernel(self.weight, shape[3], shape[4]))),
                <<2, 3, 0, 1>>)))
      [] self.kind = "iCoordInjection" -> TRUE

\* C1 (as claimed): for every layer type with a nonsingular weight and every
\* input x, inverse applied to forward(x) returns x.
C1_InverseOfForward ==
    (lcall = "inverse" /\ larg = lasty /\ Nonsingular(layer, lastx.shape)) =>
        lres = lastx

\* the forward-pass shape the layer holds
CachedShape(self) ==
    IF self.kind = "iCoordInjection" THEN self.cache.val.shape ELSE self.cache.val

\* C7 (as claimed): inverse or logdet with no forward-pass cache, or inverse
\* on a tensor whose shape differs from the cached one, ends in an error.
C7_StaleCacheFailsFast ==
    (/\ lcall \in {"inverse", "logdet"}
     /\ \/ layer.cache = None
        \/ lcall = "inverse" /\ larg.shape # CachedShape(layer)) =>
        IsError(lres)

\* C8 (as claimed): with a singular channel-mixing matrix, inverse and logdet
\* of iConv1x1 both end in an error.
C8_SingularIsAnError ==
    (/\ layer.kind = "iConv1x1"
     /\ IsSingular(WeightMatrix(layer.weight, 0, 0))
     /\ lcall \in {"inverse", "logdet"}) =>
        IsError(lres)

(***************************************************************************)
(* Properties of the reshaping primitives.                                 *)
(***************************************************************************)
At(t, idx) == t.data[FlatIndex(idx, t.shape) + 1]

Indices(shape) == { Unflat(j, shape) : j \in 0..(Prod(shape) - 1) }

Count(seq, v) == Cardinality({ j \in DOMAIN seq : seq[j] = v })

\* b holds the entries of a, each as often as a does
SameEntries(a, b) ==
    /\ Len(a) = Len(b)
    /\ \A j \in DOMAIN a : Count(a, a[j]) = Count(b, a[j])

Divides(r, n) == r >= 1 /\ n % r = 0

\* C2: for r dividing H and W, squeeze(x, r) has shape (B, C*r*r, H/r, W/r),
\* holds exactly the entries of x, and unsqueeze(squeeze(x, r), r) = x.
C2_SqueezeUnsqueeze ==
    (Divides(targ, tin.shape[3]) /\ Divides(targ, tin.shape[4])) =>
        /\ tcall \in {"SqueezeLayer.forward", "SqueezeLayer.inverse"} =>
              /\ ~IsError(tout)
              /\ tout.first.shape = <<tin.shape[1], tin.shape[2] * targ * targ,
                                      tin.shape[3] \div targ, tin.shape[4] \div targ>>
              /\ SameEntries(tin.data, tout.first.data)
              /\ tout.second = ZTOKEN
        /\ tcall = "SqueezeLayer.inverse" => tback = Pair(tin, ZTOKEN)

C2_Witness ==
    /\ tcall = "SqueezeLayer.inverse"
    /\ targ = 2
    /\ tin = MkTensor(<<2, 2, 4, 2>>, "iota")
    /\ tout.first.shape = <<2, 8, 2, 1>>
    /\ tout.first.data # tin.data
    /\ tback.first = tin

\* C3 (as claimed): once forward or inverse has run on a SqueezeLayer, logdet
\* returns a value, and that value is 0 for each batch item.
C3_LogdetZero ==
    tld # None =>
        tld = [shape |-> <<tin.shape[1]>>, data |-> [b \in 1..tin.shape[1] |-> 0]]

\* C4: for 0 <= k <= C, split(x, k) returns the first k channels and the
\* remaining C - k channels, and merge of the two is x.
C4_SplitMerge ==
    (targ >= 0 /\ targ <= tin.shape[2]) =>
        /\ tcall \in {"split", "merge"} =>
              /\ tout.first.shape = <<tin.shape[1], targ, tin.shape[3], tin.shape[4]>>
              /\ tout.second.shape = <<tin.shape[1], tin.shape[2] - targ,
                                       tin.shape[3], tin.shape[4]>>
              /\ \A i \in Indices(tin.shape) :
                    At(tin, i) = IF i[2] < targ
                                    THEN At(tout.first, i)
                                    ELSE At(tout.second, <<i[1], i[2] - targ, i[3], i[4]>>)
        /\ tcall = "merge" => tback = tin

C4_Witness ==
    /\ tcall = "merge"
    /\ targ = 1
    /\ tin = MkTensor(<<2, 2, 2, 3>>, "iota")
    /\ tout.first.shape[2] = 1
    /\ tout.second.shape[2] = 1
    /\ tback = tin

\* the upper end of the range of k: k = C, an empty second group
C4_WitnessEnds ==
    /\ tcall = "merge"
    /\ tback = tin
    /\ targ = tin.shape[2]
    /\ tout.second.data = <<>>

\* C5: padChannels.forward(x) has C + pad_size channels, the first C are x,
\* the added ones are zero, and padChannels.inverse gives x back.
C5_PadChannels ==
    /\ tcall \in {"padChannels.forward", "padChannels.inverse"} =>
          /\ tout.shape = <<tin.shape[1], tin.shape[2] + targ,
                            tin.shape[3], tin.shape[4]>>
          /\ \A i \in Indices(tout.shape) :
                At(tout, i) = IF i[2] < tin.shape[2] THEN At(tin, i) ELSE 0
    /\ tcall = "padChannels.inverse" => tback = tin

C5_Witness ==
    /\ tcall = "padChannels.inverse"
    /\ targ = 2
    /\ tin = MkTensor(<<1, 2, 2, 2>>, "iota")
    /\ tout.shape = <<1, 4, 2, 2>>
    /\ tout.data[9] = 0
    /\ tback = tin

(***************************************************************************)
(* Properties of the forward cache.                                        *)
(***************************************************************************)
\* C11: after any sequence of forward calls on a layer, its cache is the one
\* the latest forward wrote and logdet() has the batch size and the value of
\* that forward; in a training step the net runs on x2, then on x1, and the
\* log-determinant used in the unsupervised and the consistency loss is the
\* one of the x1 pass.
C11_LastForwardWins ==
    /\ (lcall \in {"forward", "logdet"} /\ lastx # None) =>
          /\ layer.cache = ForwardCache(layer, lastx)
          /\ lcall = "logdet" =>
                /\ ~IsError(lres)
                /\ lres.shape = <<lastx.shape[1]>>
                /\ lres = Layer_logdet([layer EXCEPT
                                       !.cache = ForwardCache(layer, lastx)])
    /\ step # None =>
          /\ step.passes = <<"x2", "x1">>
          /\ step.sldj = "x1"
          /\ step.loss_consistency.sldj = "x1"
          /\ step.loss_unsup.sldj \in {"x1", "none"}
          /\ ~args.supervised_only => step.loss_unsup.sldj = "x1"

\* logdet after a forward that overwrote the cache of an earlier forward on
\* an input of another shape: the result is the one of the later forward
C11_Witness ==
    /\ lcall = "logdet"
    /\ layer.kind = "iConv1x1"
    /\ overwritten
    /\ lastx.shape = <<1, 2, 2, 4>>
    /\ lres.shape = <<1>>
    /\ lres.data[1] = LogAbsDetTimes(WeightMatrix(layer.weight, 0, 0), 8)

\* a training step whose losses carry the log-determinant of the x1 pass
C11_WitnessTrain ==
    /\ step # None
    /\ step.loss_unsup.sldj = "x1"
    /\ step.loss_consistency.sldj = "x1"

(***************************************************************************)
(* Properties of the loss terms of a training step.                        *)
(***************************************************************************)
\* the positions of the batch whose label is not NO_LABEL, in order
LabeledPositions(y) == { k \in DOMAIN y : y[k] # NO_LABEL }

\* the n-th smallest element of a set of numbers
RECURSIVE Nth(_, _)
Nth(S, n) ==
    LET least == CHOOSE a \in S : \A b \in S : a <= b
    IN  IF n = 1 THEN least ELSE Nth(S \ {least}, n - 1)

\* the (sample, label) pairs of the labeled samples of a step, in batch order
LabeledPairs(st) ==
    [n \in 1..Cardinality(LabeledPositions(st.y)) |->
        <<st.batch[Nth(LabeledPositions(st.y), n)],
          st.y[Nth(LabeledPositions(st.y), n)]>>]

\* the cross-entropy term and the accuracy of a step are over the labeled
\* samples, each with its own label, and the consistency term is over the
\* whole batch
LabeledOnly(st) ==
    /\ st.loss_nll.terms = LabeledPairs(st)
    /\ Len(st.acc.over) = Len(LabeledPairs(st))
    /\ \A n \in DOMAIN st.acc.over :
          <<st.acc.over[n], st.acc.targets[n]>> = LabeledPairs(st)[n]
    /\ st.loss_consistency.over = st.batch

C12_WitnessSupervisedOnly ==
    /\ step # None
    /\ args.supervised_only
    /\ step.loss_unsup.over = <<>>
    /\ step.loss_consistency.over = step.batch

(***************************************************************************)
(* Properties of the consistency weight.                                   *)
(***************************************************************************)
\* p <= q for rationals with positive denominators
RLeq(p, q) == p[1] * q[2] <= q[1] * p[2]

\* C13: with final_value >= 0 and num_epochs >= 1, the consistency weight of
\* the epochs start_epoch, start_epoch + 1, ... is at most final_value, is
\* greater than 0 when final_value is, is final_value * (epoch - start_epoch
\* + 1) / num_epochs while that ratio is at most 1 and final_value from epoch
\* start_epoch + num_epochs - 1 on, and is not below the weight of the epoch
\* before; in a resumed run the ramp starts again at its first step.
C13_LinearRampup ==
    (step # None /\ RLeq(RZero, args.consistency_weight)
                 /\ args.consistency_rampup >= 1) =>
        LET fv == args.consistency_weight
            n == args.consistency_rampup
            k == epoch - start_epoch + 1
            w == step.consistency_weight
        IN  /\ epoch >= start_epoch
            /\ RLeq(w, fv)
            /\ fv[1] > 0 => w[1] > 0
            /\ k <= n => w[1] * fv[2] * n = fv[1] * k * w[2]
            /\ epoch >= start_epoch + n - 1 => w = fv
            /\ epoch > start_epoch =>
                  RLeq(linear_rampup(fv, epoch - 1, n, start_epoch), w)
            /\ (args.resume # None /\ epoch = start_epoch) =>
                  w[1] * fv[2] * n = fv[1] * w[2]

\* the second epoch of a ramp of three epochs to the weight 3: the weight 2
C13_Witness ==
    /\ step # None
    /\ args.consistency_weight = RInt(3)
    /\ args.consistency_rampup = 3
    /\ epoch = start_epoch + 1
    /\ step.consistency_weight = RInt(2)

\* an epoch past the end of the ramp
C13_WitnessCapped ==
    /\ step # None
    /\ args.consistency_weight = Rat(1, 2)
    /\ args.consistency_rampup = 1
    /\ epoch = start_epoch + 2
    /\ step.consistency_weight = Rat(1, 2)

\* the first epoch of a run resumed from the checkpoint of epoch 1
C13_WitnessResumed ==
    /\ step # None
    /\ args.resume # None
    /\ start_epoch = 1
    /\ epoch = 1
    /\ args.consistency_weight = RInt(3)
    /\ args.consistency_rampup = 3
    /\ step.consistency_weight = RInt(1)

(***************************************************************************)
(* Properties of the weight swaps of SWA.                                  *)
(***************************************************************************)
\* the epochs lo..hi with an evaluation
EvalEpochs(lo, hi) == { e \in lo..hi : e % args.eval_freq = 0 }

\* the calls of swap_swa_sgd made at this point of an evaluation epoch
SwapsInEpoch ==
    IF epoch % args.eval_freq # 0 THEN 0
    ELSE CASE pc = "sample" -> 1
           [] pc = "next" -> 2
           [] OTHER -> 0

\* C14: with SWA, swap_swa_sgd is called twice in each epoch with
\* epoch % eval_freq = 0 (before the second test pass, after the sampling)
\* and in no other epoch, so the net holds the SGD weights at every call of
\* train and when a checkpoint is saved, and every checkpoint holds the SGD
\* weights; without SWA there is no swap.
C14_SwapsBalanced ==
    /\ pc \in {"epoch", "train", "save", "eval", "sample", "next", "done"} =>
          /\ optimizer.swaps =
                IF args.swa
                   THEN 2 * Cardinality(EvalEpochs(start_epoch, epoch - 1))
                          + SwapsInEpoch
                   ELSE 0
          /\ net.weights = IF args.swa /\ pc = "sample" THEN "swa" ELSE "sgd"
    /\ pc # "idle" => \A e \in DOMAIN fs.ckpts : fs.ckpts[e].net.weights = "sgd"

\* the end of epoch 2 of a run with SWA and an evaluation every two epochs:
\* four swaps so far, none of them in epoch 1, and three checkpoints
C14_Witness ==
    /\ pc = "next"
    /\ args.swa
    /\ args.eval_freq = 2
    /\ args.save_freq = 1
    /\ start_epoch = 0
    /\ epoch = 2
    /\ optimizer.swaps = 4
    /\ net.weights = "sgd"
    /\ DOMAIN fs.ckpts = {0, 1, 2}

\* the end of an epoch without evaluation: the two swaps of epoch 0 alone
C14_WitnessNoEval ==
    /\ pc = "next"
    /\ args.swa
    /\ args.eval_freq = 2
    /\ epoch = 1
    /\ start_epoch = 0
    /\ optimizer.swaps = 2

\* the averaged weights in the net, between the two swaps
C14_WitnessSwapped ==
    /\ pc = "sample"
    /\ args.swa
    /\ net.weights = "swa"

====
